---- MODULE Spec2Model ----
(***************************************************************************)
(* Shuffle stage of the bulk loader (cmd/bulkloader/shuffle.go):           *)
(* readMapOutput (stream decoder), mergeMapShardsIntoReduceShards (shard   *)
(* balancer), shufflePostings (k-way merge with batching) and run (the     *)
(* orchestrator with its semaphore, wait group and shared output queue).   *)
(***************************************************************************)
EXTENDS Integers, Sequences, FiniteSets, TLC

\* ------------------------------------------------------------------ bounds
\* batchSize is 1e4 and the per-file channel capacity is 1000 in the source;
\* both are scaled down so that batches close and channels fill up.
batchSize == 2
ChanCap == 1
OutCap == 1
MaxRecs == 2
MaxStreams == 3
MaxStreamLen == 2
MaxKey == 2
MaxMapShards == 4
MaxSize == 3
MaxReduceShards == 2
MaxShufflers == 2
MaxN == 3
MaxRunFiles == 2
MaxRunLen == 1
MaxLiveLen == 3
MaxOrderMapShards == 3

\* binary.MaxVarintLen64
MaxVarintLen64 == 10

Min(a, b) == IF a < b THEN a ELSE b

\* ------------------------------------------------------------ byte strings
\* bytes.Compare: unsigned byte-wise lexicographic order; nil and the empty
\* slice are both <<>> (bytes.Compare does not tell them apart).
RECURSIVE Compare(_, _)
Compare(a, b) ==
  IF a = <<>> /\ b = <<>> THEN 0
  ELSE IF a = <<>> THEN -1
  ELSE IF b = <<>> THEN 1
  ELSE IF Head(a) < Head(b) THEN -1
  ELSE IF Head(a) > Head(b) THEN 1
  ELSE Compare(Tail(a), Tail(b))

\* binary.Uvarint(buf): <<value, n>>; n = 0 when buf ends inside the varint,
\* n < 0 on a 64-bit overflow.
RECURSIVE UvarintFrom(_, _, _, _)
UvarintFrom(buf, idx, x, mul) ==
  IF idx > Len(buf) THEN <<0, 0>>
  ELSE IF idx - 1 = MaxVarintLen64 THEN <<0, 0 - idx>>
  ELSE IF buf[idx] < 128
       THEN IF idx = MaxVarintLen64 /\ buf[idx] > 1
            THEN <<0, 0 - idx>>
            ELSE <<x + buf[idx] * mul, idx>>
       ELSE UvarintFrom(buf, idx + 1, x + (buf[idx] % 128) * mul, mul * 128)

Uvarint(buf) == UvarintFrom(buf, 1, 0, 1)

\* binary.PutUvarint, as used by the writer of the intermediate files.
RECURSIVE PutUvarint(_)
PutUvarint(x) ==
  IF x < 128 THEN <<x>> ELSE <<128 + (x % 128)>> \o PutUvarint(x \div 128)

\* ------------------------------------------------------- protos.MapEntry
\* A MapEntry is [Key, Uid]; on the wire: field 1 (bytes key, tag 10) and
\* field 2 (fixed64 uid, tag 17), zero values omitted.
Fixed64(u) ==
  [j \in 1..8 |-> IF j = 1 THEN u % 256 ELSE IF j = 2 THEN (u \div 256) % 256 ELSE 0]

Marshal(e) ==
  (IF e.Key = <<>> THEN <<>> ELSE <<10>> \o PutUvarint(Len(e.Key)) \o e.Key)
  \o (IF e.Uid = 0 THEN <<>> ELSE <<17>> \o Fixed64(e.Uid))

\* proto.Unmarshal(buf, me): [ok, me].
RECURSIVE UnmarshalFrom(_, _)
UnmarshalFrom(b, acc) ==
  IF b = <<>> THEN [ok |-> TRUE, me |-> acc]
  ELSE IF b[1] = 10 THEN
    LET rest == Tail(b)
        v == Uvarint(rest)
    IN IF v[2] <= 0 \/ Len(rest) - v[2] < v[1]
       THEN [ok |-> FALSE, me |-> acc]
       ELSE UnmarshalFrom(SubSeq(rest, v[2] + v[1] + 1, Len(rest)),
                          [acc EXCEPT !.Key = SubSeq(rest, v[2] + 1, v[2] + v[1])])
  ELSE IF b[1] = 17 THEN
    IF Len(b) < 9 THEN [ok |-> FALSE, me |-> acc]
    ELSE UnmarshalFrom(SubSeq(b, 10, Len(b)),
                       [acc EXCEPT !.Uid = b[2] + 256 * b[3]])
  ELSE [ok |-> FALSE, me |-> acc]

Unmarshal(b) == UnmarshalFrom(b, [Key |-> <<>>, Uid |-> 0])

\* One length-prefixed record of an intermediate file.
EncodeRecord(e) == PutUvarint(Len(Marshal(e))) \o Marshal(e)

RECURSIVE EncodeFile(_)
EncodeFile(recs) ==
  IF recs = <<>> THEN <<>> ELSE EncodeRecord(Head(recs)) \o EncodeFile(Tail(recs))

\* --------------------------------------------------------- readMapOutput
\* bufio.Reader.Peek(n) at offset pos: the next n bytes, or the bytes that
\* are left together with io.EOF when fewer than n remain.
Peek(file, pos, n) ==
  [buf |-> SubSeq(file, pos + 1, Min(pos + n, Len(file))),
   eof |-> Len(file) - pos < n]

\* One iteration of the for loop of readMapOutput at file offset pos:
\* "eof" (break, then close), "fatal" (x.Check / log.Fatal) or "send".
ReadIter(file, pos) ==
  LET p == Peek(file, pos, MaxVarintLen64)
      v == Uvarint(p.buf)
      sz == v[1]
      n == v[2]
      from == pos + n
      u == Unmarshal(SubSeq(file, from + 1, from + sz))
  IN IF p.eof THEN [kind |-> "eof", pos |-> pos, me |-> <<>>]
     ELSE IF n <= 0 THEN [kind |-> "fatal", pos |-> pos, me |-> <<>>]
     ELSE IF Len(file) - from < sz THEN [kind |-> "fatal", pos |-> from, me |-> <<>>]
     ELSE IF ~u.ok THEN [kind |-> "fatal", pos |-> from + sz, me |-> <<>>]
     ELSE [kind |-> "send", pos |-> from + sz, me |-> <<u.me>>]

\* The entries readMapOutput sends for a file, from offset pos on.
RECURSIVE StreamOf(_, _)
StreamOf(file, pos) ==
  LET r == ReadIter(file, pos)
  IN IF r.kind = "send" THEN <<r.me[1]>> \o StreamOf(file, r.pos) ELSE <<>>

\* ------------------------------------------------------------ postingHeap
\* A heapNode is [mapEntry, ch]: mapEntry is <<>> for a nil *MapEntry and
\* <<e>> for a pointer to e; ch is the index of the node's input channel.
\* The heap is 1-based here: node t of the model is nodes[t-1] of the code.
NilAt(h, t) == h[t].mapEntry = <<>>

\* Less with the comparison turned around.
LessReversed(h, a, b) == Compare(h[a].mapEntry[1].Key, h[b].mapEntry[1].Key) > 0

Less(h, a, b) == Compare(h[a].mapEntry[1].Key, h[b].mapEntry[1].Key) < 0

Swap(h, a, b) == [h EXCEPT ![a] = h[b], ![b] = h[a]]

Push(h, x) == Append(h, x)

Pop(h) == SubSeq(h, 1, Len(h) - 1)

\* container/heap.up; ok = FALSE when Less dereferences a nil mapEntry.
RECURSIVE up(_, _)
up(h, j) ==
  LET p == j \div 2
  IN IF j = 1 THEN [nodes |-> h, ok |-> TRUE, moved |-> FALSE]
     ELSE IF NilAt(h, j) \/ NilAt(h, p) THEN [nodes |-> h, ok |-> FALSE, moved |-> FALSE]
     ELSE IF ~Less(h, j, p) THEN [nodes |-> h, ok |-> TRUE, moved |-> FALSE]
     ELSE up(Swap(h, p, j), p)

\* container/heap.down over the first n nodes, starting at node t0.
RECURSIVE downFrom(_, _, _, _)
downFrom(h, t, t0, n) ==
  LET j1 == 2 * t
      j2 == j1 + 1
  IN IF j1 > n THEN [nodes |-> h, ok |-> TRUE, moved |-> t > t0]
     ELSE IF j2 <= n /\ (NilAt(h, j2) \/ NilAt(h, j1))
          THEN [nodes |-> h, ok |-> FALSE, moved |-> t > t0]
     ELSE LET j == IF j2 <= n /\ Less(h, j2, j1) THEN j2 ELSE j1
          IN IF NilAt(h, j) \/ NilAt(h, t)
             THEN [nodes |-> h, ok |-> FALSE, moved |-> t > t0]
             ELSE IF ~Less(h, j, t) THEN [nodes |-> h, ok |-> TRUE, moved |-> t > t0]
             ELSE downFrom(Swap(h, t, j), j, t0, n)

down(h, t0, n) == downFrom(h, t0, t0, n)

\* heap.Push(&ph, x)
heapPush(h, x) == up(Push(h, x), Len(h) + 1)

\* heap.Fix(&ph, 0)
heapFix(h) ==
  LET d == down(h, 1, Len(h))
  IN IF d.ok /\ ~d.moved THEN up(d.nodes, 1) ELSE d

\* heap.Pop(&ph)
heapPop(h) ==
  LET n == Len(h)
      d == down(Swap(h, 1, n), 1, n - 1)
  IN [nodes |-> Pop(d.nodes), ok |-> d.ok, moved |-> d.moved]

\* ------------------------------------------------------------------ state
VARIABLES
  opt,        \* s.opt: [ReduceShards, NumShufflers]
  crashed,    \* "no", "fatal" (x.Check / log.Fatal) or "panic"
  input,      \* what the writer put into the file of the decoder under test
  files,      \* per reduce shard: its intermediate files (mapFiles), as bytes
  rd,         \* per file: the readMapOutput goroutine, [pos, st]
  chs,        \* per file: shuffleInputChs[i], [buf, closed]
  delivered,  \* per file: the entries sent on its channel so far
  ph,         \* per shard: ph.nodes
  pc,         \* per shard: position of the merge goroutine
  k,          \* per shard: index of the range loop of line 152
  me,         \* per shard: the entry dequeued at line 162
  batch,      \* per shard: batch
  prevKey,    \* per shard: prevKey
  plistLen,   \* per shard: plistLen
  ci,         \* per shard: countIndexer, [kv, calls, waited, waits]
  output,     \* s.output: [buf, closed]
  sent,       \* every shuffleOutput sent on s.output, in send order
  closes,     \* number of close(s.output) executed
  opc,        \* position of run
  i,          \* loop variable of run
  pending,    \* number of tokens in the pending channel
  wg,         \* wait group counter
  kvs,        \* s.kvs
  sizes,      \* size of each map shard
  mapShards,  \* mapShards of mergeMapShardsIntoReduceShards
  reduceShards, \* per reduce shard directory: the map shards moved into it
  bpc,        \* position of mergeMapShardsIntoReduceShards
  mapFiles,   \* per map shard: the intermediate files it holds, as bytes
  shardDirs   \* shardDirs of run

decVars == <<files, rd, chs, delivered>>
mergeVars == <<ph, pc, k, me, batch, prevKey, plistLen, ci>>
outVars == <<output, sent, closes>>
runVars == <<opc, i, pending, wg, kvs>>
balVars == <<sizes, mapShards, reduceShards, bpc, mapFiles, shardDirs>>
vars == <<opt, crashed, input, decVars, mergeVars, outVars, runVars, balVars>>

Shards == 0 .. opt.ReduceShards - 1

EmptyChan == [buf |-> <<>>, closed |-> FALSE]

\* -------------------------------------------------- readMapOutput (71-100)
\* One iteration of the decoder of file f of shard s; the send of line 97
\* blocks while the channel is full.
ReadMapOutput(s, f) ==
  /\ crashed = "no"
  /\ rd[s][f].st = "run"
  /\ LET r == ReadIter(files[s][f], rd[s][f].pos)
     IN IF r.kind = "eof"
        THEN /\ rd' = [rd EXCEPT ![s][f].st = "closed"]
             /\ chs' = [chs EXCEPT ![s][f].closed = TRUE]
             /\ UNCHANGED <<delivered, crashed>>
        ELSE IF r.kind = "fatal"
        THEN /\ crashed' = "fatal"
             /\ UNCHANGED <<rd, chs, delivered>>
        ELSE /\ Len(chs[s][f].buf) < ChanCap
             /\ rd' = [rd EXCEPT ![s][f].pos = r.pos]
             /\ chs' = [chs EXCEPT ![s][f].buf = Append(@, r.me[1])]
             /\ delivered' = [delivered EXCEPT ![s][f] = Append(@, r.me[1])]
             /\ UNCHANGED crashed
  /\ UNCHANGED <<opt, input, files, mergeVars, outVars, runVars, balVars>>

\* The reader of a decoder's channel when the decoder is run on its own.
RecvStream(s, f) ==
  /\ crashed = "no"
  /\ chs[s][f].buf # <<>>
  /\ chs' = [chs EXCEPT ![s][f].buf = Tail(@)]
  /\ UNCHANGED <<opt, crashed, input, files, rd, delivered, mergeVars, outVars,
                 runVars, balVars>>

\* ----------------------------------------------- shufflePostings (149-193)
\* A receive from channel c proceeds when c holds an entry or is closed.
CanRecv(c) == c.buf # <<>> \/ c.closed

\* The value received: <<e>>, or <<>> (nil, ok = false) from a closed and
\* drained channel.
RecvVal(c) == IF c.buf # <<>> THEN <<Head(c.buf)>> ELSE <<>>

AfterRecv(c) == IF c.buf # <<>> THEN [c EXCEPT !.buf = Tail(@)] ELSE c

\* s.output <- shuffleOutput{entries: b, kv: ci.kv}; a send on a closed
\* channel panics.
CanSend == Len(output.buf) < OutCap \/ output.closed

\* The send of line 178 tagging the batch with the handle opened last.
SendOutputLastKv(s, b) ==
  IF output.closed
  THEN /\ crashed' = "panic"
       /\ UNCHANGED <<output, sent>>
  ELSE /\ output' = [output EXCEPT !.buf = Append(@, [entries |-> b, kv |-> kvs[Len(kvs)]])]
       /\ sent' = Append(sent, [entries |-> b, kv |-> kvs[Len(kvs)]])
       /\ UNCHANGED crashed

SendOutput(s, b) ==
  IF output.closed
  THEN /\ crashed' = "panic"
       /\ UNCHANGED <<output, sent>>
  ELSE /\ output' = [output EXCEPT !.buf = Append(@, [entries |-> b, kv |-> ci[s].kv])]
       /\ sent' = Append(sent, [entries |-> b, kv |-> ci[s].kv])
       /\ UNCHANGED crashed

\* Lines 152-154, one iteration: heap.Push(&ph, heapNode{mapEntry: <-ch, ch: ch}).
PushNode(s) ==
  /\ crashed = "no"
  /\ pc[s] = "push"
  /\ LET f == k[s]
         c == chs[s][f]
         r == heapPush(ph[s], [mapEntry |-> RecvVal(c), ch |-> f])
     IN /\ CanRecv(c)
        /\ chs' = [chs EXCEPT ![s][f] = AfterRecv(c)]
        /\ IF r.ok
           THEN /\ ph' = [ph EXCEPT ![s] = r.nodes]
                /\ k' = [k EXCEPT ![s] = f + 1]
                /\ pc' = [pc EXCEPT ![s] = IF f = Len(chs[s]) THEN "loop" ELSE "push"]
                /\ UNCHANGED crashed
           ELSE /\ crashed' = "panic"
                /\ UNCHANGED <<ph, k, pc>>
  /\ UNCHANGED <<opt, input, files, rd, delivered, me, batch, prevKey, plistLen, ci,
                 outVars, runVars, balVars>>

\* Lines 161-175: take the root's entry, refill the root from its channel
\* (heap.Fix) or drop it (heap.Pop), and report the key-group that ended.
Dequeue(s) ==
  /\ crashed = "no"
  /\ pc[s] = "loop"
  /\ ph[s] # <<>>
  /\ LET f == ph[s][1].ch
         c == chs[s][f]
         cur == ph[s][1].mapEntry
         h1 == [ph[s] EXCEPT ![1].mapEntry = RecvVal(c)]
         r == IF c.buf # <<>> THEN heapFix(h1) ELSE heapPop(h1)
     IN /\ CanRecv(c)
        /\ chs' = [chs EXCEPT ![s][f] = AfterRecv(c)]
        /\ IF r.ok /\ cur # <<>>
           THEN LET keyChanged == Compare(prevKey[s], cur[1].Key) # 0
                IN /\ ph' = [ph EXCEPT ![s] = r.nodes]
                   /\ me' = [me EXCEPT ![s] = cur]
                   /\ IF keyChanged /\ plistLen[s] > 0
                      THEN /\ ci' = [ci EXCEPT ![s].calls =
                                        Append(@, <<prevKey[s], plistLen[s]>>)]
                           /\ plistLen' = [plistLen EXCEPT ![s] = 0]
                      ELSE UNCHANGED <<ci, plistLen>>
                   /\ pc' = [pc EXCEPT ![s] = "batch"]
                   /\ UNCHANGED crashed
           ELSE /\ crashed' = "panic"
                /\ UNCHANGED <<ph, me, ci, plistLen, pc>>
  /\ UNCHANGED <<opt, input, files, rd, delivered, k, batch, prevKey,
                 outVars, runVars, balVars>>

\* The test of line 177 without its key comparison.
CloseBatchAnyKey(b, prev, key) == Len(b) >= batchSize

\* The test of line 177 with > for >=.
CloseBatchAbove(b, prev, key) == Len(b) > batchSize /\ Compare(prev, key) # 0

\* The test of line 177.
CloseBatch(b, prev, key) == Len(b) >= batchSize /\ Compare(prev, key) # 0

\* Lines 177-184: close the batch at a key boundary, then append the entry.
AppendEntry(s) ==
  /\ crashed = "no"
  /\ pc[s] = "batch"
  /\ LET e == me[s][1]
     IN /\ IF CloseBatch(batch[s], prevKey[s], e.Key)
           THEN /\ CanSend
                /\ SendOutput(s, batch[s])
                /\ batch' = [batch EXCEPT ![s] = <<e>>]
           ELSE /\ batch' = [batch EXCEPT ![s] = Append(@, e)]
                /\ UNCHANGED <<output, sent, crashed>>
        /\ prevKey' = [prevKey EXCEPT ![s] = e.Key]
        /\ plistLen' = [plistLen EXCEPT ![s] = @ + 1]
        /\ pc' = [pc EXCEPT ![s] = "loop"]
  /\ UNCHANGED <<opt, input, decVars, ph, k, me, ci, closes, runVars, balVars>>

\* Lines 186-192 without the test of line 186: the last batch is sent even
\* when it is empty.
FinishAlwaysSends(s) ==
  /\ crashed = "no"
  /\ pc[s] = "loop"
  /\ ph[s] = <<>>
  /\ CanSend
  /\ SendOutput(s, batch[s])
  /\ IF plistLen[s] > 0
     THEN ci' = [ci EXCEPT ![s].calls = Append(@, <<prevKey[s], plistLen[s]>>)]
     ELSE UNCHANGED ci
  /\ pc' = [pc EXCEPT ![s] = "returned"]
  /\ UNCHANGED <<opt, input, decVars, ph, k, me, batch, prevKey, plistLen, closes,
                 runVars, balVars>>

\* Lines 186-192, after the loop: the last batch and the last key-group.
Finish(s) ==
  /\ crashed = "no"
  /\ pc[s] = "loop"
  /\ ph[s] = <<>>
  /\ IF Len(batch[s]) > 0
     THEN /\ CanSend
          /\ SendOutput(s, batch[s])
     ELSE UNCHANGED <<output, sent, crashed>>
  /\ IF plistLen[s] > 0
     THEN ci' = [ci EXCEPT ![s].calls = Append(@, <<prevKey[s], plistLen[s]>>)]
     ELSE UNCHANGED ci
  /\ pc' = [pc EXCEPT ![s] = "returned"]
  /\ UNCHANGED <<opt, input, decVars, ph, k, me, batch, prevKey, plistLen, closes,
                 runVars, balVars>>

\* ------------------------------------------------------------ run (28-69)
\* Line 39 on a channel that never fills up.
AcquireNoBlock ==
  /\ crashed = "no"
  /\ opc = "acquire"
  /\ pending' = pending + 1
  /\ opc' = "start"
  /\ UNCHANGED <<opt, crashed, input, decVars, mergeVars, outVars, i, wg, kvs, balVars>>

\* Line 39: pending <- struct{}{} blocks while NumShufflers tokens are held.
Acquire ==
  /\ crashed = "no"
  /\ opc = "acquire"
  /\ pending < opt.NumShufflers
  /\ pending' = pending + 1
  /\ opc' = "start"
  /\ UNCHANGED <<opt, crashed, input, decVars, mergeVars, outVars, i, wg, kvs, balVars>>

\* Lines 41-64 with every goroutine using the handle of the first iteration.
StartShardSharedKv ==
  /\ crashed = "no"
  /\ opc = "start"
  /\ kvs' = Append(kvs, i)
  /\ rd' = [rd EXCEPT ![i] = [f \in DOMAIN rd[i] |-> [pos |-> 0, st |-> "run"]]]
  /\ ci' = [ci EXCEPT ![i].kv = 0]
  /\ pc' = [pc EXCEPT ![i] = IF chs[i] = <<>> THEN "loop" ELSE "push"]
  /\ i' = i + 1
  /\ opc' = IF i + 1 < opt.ReduceShards THEN "acquire" ELSE "wait"
  /\ UNCHANGED <<opt, crashed, input, files, chs, delivered, ph, k, me, batch,
                 prevKey, plistLen, outVars, pending, wg, balVars>>

\* Lines 41-64: open the shard's store, start one decoder per file and the
\* merge goroutine; the store handle of shard i is named i.
StartShard ==
  /\ crashed = "no"
  /\ opc = "start"
  /\ kvs' = Append(kvs, i)
  /\ rd' = [rd EXCEPT ![i] = [f \in DOMAIN rd[i] |-> [pos |-> 0, st |-> "run"]]]
  /\ ci' = [ci EXCEPT ![i].kv = i]
  /\ pc' = [pc EXCEPT ![i] = IF chs[i] = <<>> THEN "loop" ELSE "push"]
  /\ i' = i + 1
  /\ opc' = IF i + 1 < opt.ReduceShards THEN "acquire" ELSE "wait"
  /\ UNCHANGED <<opt, crashed, input, files, chs, delivered, ph, k, me, batch,
                 prevKey, plistLen, outVars, pending, wg, balVars>>

\* Line 61 left out: the goroutine goes on without calling ci.wait().
CiNoWait(s) ==
  /\ crashed = "no"
  /\ pc[s] = "returned"
  /\ pc' = [pc EXCEPT ![s] = "release"]
  /\ UNCHANGED <<opt, crashed, input, decVars, ph, k, me, batch, prevKey, plistLen, ci,
                 outVars, runVars, balVars>>

\* Line 61: ci.wait(); waits counts the calls.
CiWait(s) ==
  /\ crashed = "no"
  /\ pc[s] = "returned"
  /\ ci' = [ci EXCEPT ![s].waited = TRUE, ![s].waits = @ + 1]
  /\ pc' = [pc EXCEPT ![s] = "release"]
  /\ UNCHANGED <<opt, crashed, input, decVars, ph, k, me, batch, prevKey, plistLen,
                 outVars, runVars, balVars>>

\* Line 62 left out: the goroutine keeps its token.
ReleaseKeepsToken(s) ==
  /\ crashed = "no"
  /\ pc[s] = "release"
  /\ pc' = [pc EXCEPT ![s] = "wgdone"]
  /\ UNCHANGED <<opt, crashed, input, decVars, ph, k, me, batch, prevKey, plistLen, ci,
                 outVars, runVars, balVars>>

\* Line 62: <-pending.
Release(s) ==
  /\ crashed = "no"
  /\ pc[s] = "release"
  /\ pending > 0
  /\ pending' = pending - 1
  /\ pc' = [pc EXCEPT ![s] = "wgdone"]
  /\ UNCHANGED <<opt, crashed, input, decVars, ph, k, me, batch, prevKey, plistLen, ci,
                 outVars, opc, i, wg, kvs, balVars>>

\* Line 63: wg.Done().
WgDone(s) ==
  /\ crashed = "no"
  /\ pc[s] = "wgdone"
  /\ wg' = wg - 1
  /\ pc' = [pc EXCEPT ![s] = "done"]
  /\ UNCHANGED <<opt, crashed, input, decVars, ph, k, me, batch, prevKey, plistLen, ci,
                 outVars, opc, i, pending, kvs, balVars>>

\* Line 68 without the wg.Wait() of line 67.
CloseWithoutWait ==
  /\ crashed = "no"
  /\ opc = "wait"
  /\ output' = [output EXCEPT !.closed = TRUE]
  /\ closes' = closes + 1
  /\ opc' = "done"
  /\ UNCHANGED <<opt, crashed, input, decVars, mergeVars, sent, i, pending, wg, kvs,
                 balVars>>

\* Lines 67-68: wg.Wait(); close(s.output).
WaitAndClose ==
  /\ crashed = "no"
  /\ opc = "wait"
  /\ wg = 0
  /\ output' = [output EXCEPT !.closed = TRUE]
  /\ closes' = closes + 1
  /\ opc' = "done"
  /\ UNCHANGED <<opt, crashed, input, decVars, mergeVars, sent, i, pending, wg, kvs,
                 balVars>>

\* The reduce phase receives a batch from s.output.
Consume ==
  /\ crashed = "no"
  /\ output.buf # <<>>
  /\ output' = [output EXCEPT !.buf = Tail(@)]
  /\ UNCHANGED <<opt, crashed, input, decVars, mergeVars, sent, closes, runVars, balVars>>

\* ------------------------------- mergeMapShardsIntoReduceShards (102-118)
RECURSIVE SumSizes(_)
SumSizes(ms) == IF ms = <<>> THEN 0 ELSE sizes[Head(ms)] + SumSizes(Tail(ms))

\* Size of a reduce shard directory: the sizes of the map shards moved into it.
treeSize(r) == SumSizes(reduceShards[r])

\* The size of every reduce shard directory.
treeSizes == [r \in DOMAIN reduceShards |-> treeSize(r)]

\* sortBySize(dirs, ascending): the orders it may leave dirs in; dirs that
\* have the same size may end up in either order.
sortBySize(dirs, size, ascending) ==
  {p \in [1 .. Cardinality(dirs) -> dirs] :
     /\ \A a, b \in DOMAIN p : a # b => p[a] # p[b]
     /\ \A a \in DOMAIN p : a + 1 \in DOMAIN p =>
          IF ascending THEN size[p[a]] <= size[p[a + 1]]
                       ELSE size[p[a]] >= size[p[a + 1]]}

\* Line 103 with shardDirs sorting smallest first.
ListMapShardsAscending ==
  /\ bpc = "list"
  /\ \E p \in sortBySize(DOMAIN sizes, sizes, TRUE) : mapShards' = p
  /\ bpc' = "move"
  /\ UNCHANGED <<opt, crashed, input, decVars, mergeVars, outVars, runVars, sizes,
                 reduceShards, mapFiles, shardDirs>>

\* Line 103: mapShards := s.shardDirs(), largest first.
ListMapShards ==
  /\ bpc = "list"
  /\ \E p \in sortBySize(DOMAIN sizes, sizes, FALSE) : mapShards' = p
  /\ bpc' = "move"
  /\ UNCHANGED <<opt, crashed, input, decVars, mergeVars, outVars, runVars, sizes,
                 reduceShards, mapFiles, shardDirs>>

\* reduceShards[0] after a descending sort.
MoveTargetLargest == {p[1] : p \in sortBySize(DOMAIN reduceShards, treeSizes, FALSE)}

\* Lines 115-116: the directories that can be reduceShards[0] after
\* sortBySize(reduceShards, true).
MoveTarget == {p[1] : p \in sortBySize(DOMAIN reduceShards, treeSizes, TRUE)}

\* Lines 114-117, one iteration: rename the next map shard into reduceShards[0].
MoveShard ==
  /\ bpc = "move"
  /\ mapShards # <<>>
  /\ \E r \in MoveTarget :
       reduceShards' = [reduceShards EXCEPT ![r] = Append(@, Head(mapShards))]
  /\ mapShards' = Tail(mapShards)
  /\ UNCHANGED <<opt, crashed, input, decVars, mergeVars, outVars, runVars, sizes, bpc,
                 mapFiles, shardDirs>>

\* Line 118: the range loop is over.
MergeDone ==
  /\ bpc = "move"
  /\ mapShards = <<>>
  /\ bpc' = "done"
  /\ UNCHANGED <<opt, crashed, input, decVars, mergeVars, outVars, runVars, sizes,
                 mapShards, reduceShards, mapFiles, shardDirs>>

\* ------------------------------------------------------------ initial states
Keys == {<<>>, <<1, 1>>} \cup {<<b>> : b \in 1 .. MaxKey}

SeqsUpTo(S, n) == UNION {[1 .. m -> S] : m \in 0 .. n}

\* Key sequences of a sorted intermediate file.
SortedKeySeqs(keys, n) ==
  {ks \in SeqsUpTo(keys, n) :
     \A j \in DOMAIN ks : j + 1 \in DOMAIN ks => Compare(ks[j], ks[j + 1]) <= 0}

\* The file the map phase writes for key sequence ks; uid tells the files
\* of one shard apart.
SortedFile(ks, uid) == EncodeFile([j \in DOMAIN ks |-> [Key |-> ks[j], Uid |-> uid]])

NoInput == [recs |-> <<>>, truncated |-> FALSE]

\* Nothing started: no decoder, no merge goroutine, empty channels.
InitShards ==
  /\ crashed = "no"
  /\ rd = [s \in Shards |-> [f \in DOMAIN files[s] |-> [pos |-> 0, st |-> "idle"]]]
  /\ chs = [s \in Shards |-> [f \in DOMAIN files[s] |-> EmptyChan]]
  /\ delivered = [s \in Shards |-> [f \in DOMAIN files[s] |-> <<>>]]
  /\ ph = [s \in Shards |-> <<>>]
  /\ pc = [s \in Shards |-> "idle"]
  /\ k = [s \in Shards |-> 1]
  /\ me = [s \in Shards |-> <<>>]
  /\ batch = [s \in Shards |-> <<>>]
  /\ prevKey = [s \in Shards |-> <<>>]
  /\ plistLen = [s \in Shards |-> 0]
  /\ ci = [s \in Shards |-> [kv |-> -1, calls |-> <<>>, waited |-> FALSE, waits |-> 0]]
  /\ output = [buf |-> <<>>, closed |-> FALSE]
  /\ sent = <<>>
  /\ closes = 0
  /\ i = 0
  /\ pending = 0
  /\ kvs = <<>>

InitNoBalance ==
  /\ sizes = <<>>
  /\ mapShards = <<>>
  /\ reduceShards = <<>>
  /\ bpc = "idle"
  /\ mapFiles = <<>>
  /\ shardDirs = <<>>

\* run at line 37, the reduce shard directories holding their files.
InitRunWith(maxShards, maxShufflers, fileLists) ==
  /\ opt \in [ReduceShards : 1 .. maxShards, NumShufflers : 1 .. maxShufflers]
  /\ input = NoInput
  /\ files \in [Shards -> fileLists]
  /\ InitShards
  /\ opc = "acquire"
  /\ wg = opt.ReduceShards
  /\ InitNoBalance

\* Lists of at most n sorted files of at most len entries each.
FileLists(n, len, keys) ==
  {[f \in DOMAIN kss |-> SortedFile(kss[f], f)] :
     kss \in SeqsUpTo(SortedKeySeqs(keys, len), n)}

Next ==
  \/ Acquire
  \/ StartShard
  \/ WaitAndClose
  \/ Consume
  \/ \E s \in Shards :
       \/ PushNode(s)
       \/ Dequeue(s)
       \/ AppendEntry(s)
       \/ Finish(s)
       \/ CiWait(s)
       \/ Release(s)
       \/ WgDone(s)
       \/ \E f \in DOMAIN rd[s] : ReadMapOutput(s, f)

\* One reduce shard: a single run of shufflePostings over up to MaxStreams
\* streams.
InitMerge == InitRunWith(1, 1, FileLists(MaxStreams, MaxStreamLen, Keys))

SpecMerge == InitMerge /\ [][Next]_vars

\* Several reduce shards under the semaphore.
RunKeys == {<<b>> : b \in 1 .. MaxKey}

InitRun ==
  InitRunWith(MaxReduceShards, MaxShufflers, FileLists(MaxRunFiles, MaxRunLen, RunKeys))

Spec == InitRun /\ [][Next]_vars

\* run over files that each yield at least one entry.
\* A shard has no file, one file of one entry, or two files of MaxLiveLen
\* entries: one that changes key at its last entry and one of a single key.
Rep(key, n) == [j \in 1 .. n |-> key]

LiveFileLists ==
  {<<>>,
   <<SortedFile(<<<<1>>>>, 1)>>,
   <<SortedFile(Rep(<<1>>, MaxLiveLen - 1) \o <<<<2>>>>, 1),
     SortedFile(Rep(<<2>>, MaxLiveLen), 2)>>}

InitLive == InitRunWith(MaxReduceShards, MaxShufflers, LiveFileLists)

\* Every step of run takes work away (a byte offset, a channel entry or a
\* program position moves on), so a fair scheduler of the goroutines and of
\* the consumer keeps taking steps while one is possible.
SpecLive == InitLive /\ [][Next]_vars /\ WF_vars(Next)

\* A decoder on its own, over a file that holds encoded records and is
\* possibly cut short.
DecoderRecs ==
  {[Key |-> <<>>, Uid |-> 0], [Key |-> <<1>>, Uid |-> 0], [Key |-> <<1>>, Uid |-> 1],
   [Key |-> [j \in 1 .. 126 |-> 1], Uid |-> 0]}

Boundaries(recs) == {Len(EncodeFile(SubSeq(recs, 1, j))) : j \in 0 .. Len(recs)}

InitDecoder ==
  /\ opt = [ReduceShards |-> 1, NumShufflers |-> 1]
  /\ \E recs \in SeqsUpTo(DecoderRecs, MaxRecs) :
       \E p \in 0 .. Len(EncodeFile(recs)) :
         LET whole == Cardinality({b \in Boundaries(recs) : b <= p}) - 1
         IN /\ input = [recs |-> SubSeq(recs, 1, whole),
                        truncated |-> p \notin Boundaries(recs)]
            /\ files = [s \in Shards |-> <<SubSeq(EncodeFile(recs), 1, p)>>]
  /\ InitShards
  /\ opc = "idle"
  /\ wg = 0
  /\ InitNoBalance

StartDecoder ==
  /\ rd[0][1].st = "idle"
  /\ rd' = [rd EXCEPT ![0][1].st = "run"]
  /\ UNCHANGED <<opt, crashed, input, files, chs, delivered, mergeVars, outVars,
                 runVars, balVars>>

NextDecoder == StartDecoder \/ ReadMapOutput(0, 1) \/ RecvStream(0, 1)

SpecDecoder == InitDecoder /\ [][NextDecoder]_vars

\* The map shards of sizes 10, 9, 5 and 5, listed in any order.
ExampleSizes ==
  {sz \in [1 .. 4 -> {5, 9, 10}] :
     /\ Cardinality({m \in 1 .. 4 : sz[m] = 10}) = 1
     /\ Cardinality({m \in 1 .. 4 : sz[m] = 9}) = 1}

\* The balancer on its own.
InitBalance ==
  /\ opt \in [ReduceShards : 1 .. MaxN, NumShufflers : {1}]
  /\ input = NoInput
  /\ files = [s \in Shards |-> <<>>]
  /\ InitShards
  /\ opc = "idle"
  /\ wg = 0
  /\ sizes \in SeqsUpTo(0 .. MaxSize, MaxMapShards) \cup ExampleSizes
  /\ mapShards = <<>>
  /\ reduceShards = [r \in Shards |-> <<>>]
  /\ bpc = "list"
  /\ mapFiles = <<>>
  /\ shardDirs = <<>>

NextBalance == ListMapShards \/ MoveShard \/ MergeDone

SpecBalance == InitBalance /\ [][NextBalance]_vars

\* run from its first line: the balancer, then the listing of the reduce
\* shard directories, then the loop over them.
\* filenamesInTree(dir) for reduce shard directory r: the files of the map
\* shards m, m + 1, ... that were moved into r, in the order of the walk.
RECURSIVE TreeFilesFrom(_, _)
TreeFilesFrom(r, m) ==
  IF m > Len(mapFiles) THEN <<>>
  ELSE (IF \E j \in DOMAIN reduceShards[r] : reduceShards[r][j] = m
        THEN mapFiles[m] ELSE <<>>) \o TreeFilesFrom(r, m + 1)

filenamesInTree(r) == TreeFilesFrom(r, 1)

RECURSIVE SumLen(_)
SumLen(fs) == IF fs = <<>> THEN 0 ELSE Len(Head(fs)) + SumLen(Tail(fs))

\* The loop of run over the directories dirs: iteration s reads the files of
\* dirs[s] (line 51); here dirs is 1-based, so iteration s reads dirs[s + 1].
PrepareLoop(dirs) ==
  /\ shardDirs' = dirs
  /\ files' = [s \in Shards |-> filenamesInTree(dirs[s + 1])]
  /\ rd' = [s \in Shards |->
              [f \in DOMAIN filenamesInTree(dirs[s + 1]) |-> [pos |-> 0, st |-> "idle"]]]
  /\ chs' = [s \in Shards |-> [f \in DOMAIN filenamesInTree(dirs[s + 1]) |-> EmptyChan]]
  /\ delivered' = [s \in Shards |-> [f \in DOMAIN filenamesInTree(dirs[s + 1]) |-> <<>>]]
  /\ wg' = opt.ReduceShards
  /\ opc' = "acquire"

\* Line 30 with shardDirs leaving the directories in the order of
\* Readdirnames, which is any order.
ListShardDirsUnsorted ==
  /\ bpc = "done"
  /\ opc = "idle"
  /\ \E dirs \in sortBySize(DOMAIN reduceShards, [r \in DOMAIN reduceShards |-> 0], FALSE) :
       PrepareLoop(dirs)
  /\ UNCHANGED <<opt, crashed, input, mergeVars, outVars, i, pending, kvs, sizes,
                 mapShards, reduceShards, bpc, mapFiles>>

\* Lines 30-37: shardDirs := s.shardDirs(), the reduce shard directories,
\* largest first; the asserts hold (one directory per reduce shard, one
\* output directory per reduce shard); wg.Add(ReduceShards).
ListShardDirs ==
  /\ bpc = "done"
  /\ opc = "idle"
  /\ \E dirs \in sortBySize(DOMAIN reduceShards, treeSizes, FALSE) : PrepareLoop(dirs)
  /\ UNCHANGED <<opt, crashed, input, mergeVars, outVars, i, pending, kvs, sizes,
                 mapShards, reduceShards, bpc, mapFiles>>

\* The map shards the map phase left in TmpDir: each holds at most one file
\* of at most one entry, and its size is the size of its files.
InitOrder ==
  /\ opt \in [ReduceShards : 1 .. MaxReduceShards, NumShufflers : 1 .. MaxShufflers]
  /\ input = NoInput
  /\ files = [s \in Shards |-> <<>>]
  /\ InitShards
  /\ opc = "idle"
  /\ wg = 0
  /\ mapFiles \in SeqsUpTo(FileLists(1, 1, RunKeys), MaxOrderMapShards)
  /\ sizes = [m \in DOMAIN mapFiles |-> SumLen(mapFiles[m])]
  /\ mapShards = <<>>
  /\ reduceShards = [r \in Shards |-> <<>>]
  /\ bpc = "list"
  /\ shardDirs = <<>>

NextOrder == NextBalance \/ ListShardDirs \/ Next

SpecOrder == InitOrder /\ [][NextOrder]_vars

\* ------------------------------------------------------------------ claims
\* The entries of the batches that shard s has sent, in send order.
RECURSIVE EntriesOf(_, _)
EntriesOf(outs, s) ==
  IF outs = <<>> THEN <<>>
  ELSE (IF Head(outs).kv = s THEN Head(outs).entries ELSE <<>>) \o EntriesOf(Tail(outs), s)

\* The batches that shard s has sent, in send order.
RECURSIVE BatchesOf(_, _)
BatchesOf(outs, s) ==
  IF outs = <<>> THEN <<>>
  ELSE (IF Head(outs).kv = s THEN <<Head(outs).entries>> ELSE <<>>)
       \o BatchesOf(Tail(outs), s)

KeysIn(es) == {es[j].Key : j \in DOMAIN es}

SortedByKey(es) ==
  \A j \in DOMAIN es : j + 1 \in DOMAIN es => Compare(es[j].Key, es[j + 1].Key) <= 0

\* C1: the records of all batches emitted by one run of shufflePostings,
\* concatenated in emission order, are non-decreasing by key under
\* bytes.Compare.
C1_GlobalSortedness == \A s \in Shards : SortedByKey(EntriesOf(sent, s))

\* C1 witness: a run over two or more streams has returned after emitting
\* several batches that hold more than one key.
C1_Witness ==
  /\ pc[0] = "returned"
  /\ Len(files[0]) >= 2
  /\ Len(BatchesOf(sent, 0)) >= 2
  /\ Cardinality(KeysIn(EntriesOf(sent, 0))) >= 2

\* C2: no key-group is split: two different batches emitted by a run never
\* hold the same key, and while the merge loop runs the batch being filled
\* holds no key of an emitted batch.
C2_NoSplitKeyGroup ==
  \A s \in Shards :
    LET bs == BatchesOf(sent, s)
    IN /\ \A a, b \in DOMAIN bs : a # b => KeysIn(bs[a]) \cap KeysIn(bs[b]) = {}
       /\ pc[s] \in {"loop", "batch"} =>
            \A a \in DOMAIN bs : KeysIn(bs[a]) \cap KeysIn(batch[s]) = {}

\* C2 witness: a batch grew past batchSize because its last key-group was
\* kept whole, and a later batch was emitted after it.
C2_Witness ==
  LET bs == BatchesOf(sent, 0)
  IN /\ Len(bs) >= 2
     /\ Len(bs[1]) > batchSize
     /\ bs[1][Len(bs[1])].Key = bs[1][Len(bs[1]) - 1].Key

\* All entries of the input streams of shard s.
RECURSIVE InputFrom(_, _)
InputFrom(s, f) ==
  IF f > Len(files[s]) THEN <<>> ELSE StreamOf(files[s][f], 0) \o InputFrom(s, f + 1)

CountKey(es, key) == Cardinality({j \in DOMAIN es : es[j].Key = key})

\* Every addUid call made so far by shard s carries the total count of its
\* key, and no key was reported twice.
CallsExact(s) ==
  LET calls == ci[s].calls
  IN /\ \A a \in DOMAIN calls : calls[a][2] = CountKey(InputFrom(s, 1), calls[a][1])
     /\ \A a, b \in DOMAIN calls : a # b => calls[a][1] # calls[b][1]

\* Every key of the input streams of shard s has been reported.
CallsComplete(s) ==
  {ci[s].calls[a][1] : a \in DOMAIN ci[s].calls} = KeysIn(InputFrom(s, 1))

Returned(s) == pc[s] \in {"returned", "release", "wgdone", "done"}

\* C3: a run of shufflePostings over sorted input streams makes exactly one
\* addUid(key, count) call per distinct key of its inputs, each only after
\* the last record of that key was dequeued (count is the key's total over
\* all streams): no call is ever off, and once the run is over, by return
\* or by crash, every key has been reported.
C3_OneCallPerKey ==
  \A s \in Shards :
    /\ CallsExact(s)
    /\ (Returned(s) \/ (crashed # "no" /\ pc[s] # "idle")) => CallsComplete(s)

\* C3, the part the code keeps: calls are never off, and a run that returns
\* has reported every key.
C3_OnReturn == \A s \in Shards : CallsExact(s) /\ (Returned(s) => CallsComplete(s))

\* C6: given one or more input streams that are all empty, shufflePostings
\* returns normally: it does not panic, emits no batch and makes no addUid
\* call.
C6_AllEmptyReturns ==
  \A s \in Shards :
    (files[s] # <<>> /\ InputFrom(s, 1) = <<>>) =>
      /\ crashed # "panic"
      /\ BatchesOf(sent, s) = <<>>
      /\ ci[s].calls = <<>>

MaxOf(S) == IF S = {} THEN 0 ELSE CHOOSE x \in S : \A y \in S : y <= x

\* The places (reduce shard, position) where map shard m lies.
Holders(m) ==
  {<<r, j>> \in (DOMAIN reduceShards) \X (1 .. Len(sizes)) :
     j \in DOMAIN reduceShards[r] /\ reduceShards[r][j] = m}

\* C4: once mergeMapShardsIntoReduceShards is done, every map shard lies in
\* exactly one reduce shard, and no reduce shard is larger than
\* (sum of the map shard sizes) / ReduceShards + (largest map shard).
C4_BalanceBound ==
  bpc = "done" =>
    /\ \A m \in DOMAIN sizes : Cardinality(Holders(m)) = 1
    /\ \A r \in DOMAIN reduceShards :
         treeSize(r) <= (SumSizes([m \in DOMAIN sizes |-> m]) \div opt.ReduceShards)
                        + MaxOf({sizes[m] : m \in DOMAIN sizes})

\* C4 witness: more map shards than reduce shards were balanced, and some
\* reduce shard ended above the average size.
C4_Witness ==
  /\ bpc = "done"
  /\ Len(sizes) > opt.ReduceShards
  /\ opt.ReduceShards >= 2
  /\ \E r \in DOMAIN reduceShards :
       /\ Len(reduceShards[r]) >= 2
       /\ treeSize(r) > SumSizes([m \in DOMAIN sizes |-> m]) \div opt.ReduceShards

IsPrefix(a, b) == Len(a) <= Len(b) /\ a = SubSeq(b, 1, Len(a))

\* C5: for a well-formed file readMapOutput never fails, sends the file's
\* records in file order, each once, and has sent all of them when it closes
\* the channel.
C5_AllRecordsDelivered ==
  ~input.truncated =>
    /\ crashed # "fatal"
    /\ IsPrefix(delivered[0][1], input.recs)
    /\ rd[0][1].st = "closed" => delivered[0][1] = input.recs

\* C10: for a file that ends in a truncated record readMapOutput never
\* closes its channel as at a clean end of stream.
C10_TruncatedNeverClosesCleanly == input.truncated => rd[0][1].st # "closed"

\* A shard that holds a token of the pending channel: started and not yet
\* past line 62.
Active(s) == pc[s] \in {"push", "loop", "batch", "returned", "release"}

ActiveShards == {s \in Shards : Active(s)}

\* C7: at most NumShufflers reduce shards are merging at any time, and run
\* is about to start a shard only while fewer than NumShufflers are active.
C7_BoundedShufflers ==
  /\ Cardinality(ActiveShards) <= opt.NumShufflers
  /\ opc = "start" => Cardinality(ActiveShards) < opt.NumShufflers

\* C7 witness: NumShufflers shards are merging and run is blocked at line 39
\* with a further shard to start.
C7_Witness ==
  /\ opc = "acquire"
  /\ i < opt.ReduceShards
  /\ Cardinality(ActiveShards) = opt.NumShufflers
  /\ \E s \in ActiveShards : pc[s] = "batch"

\* C8: s.output is closed once, only after every merge goroutine has sent
\* its last batch and returned from ci.wait, and nothing is sent on it (nor
\* does a send panic) after the close.
C8_CloseOnceAfterAll ==
  /\ [](closes <= 1)
  /\ [](output.closed =>
          /\ crashed = "no"
          /\ \A s \in Shards : pc[s] = "done" /\ ci[s].waited)
  /\ [][output.closed => sent' = sent]_vars

\* C8 witness: the queue is closed after two shards have each sent a batch.
C8_Witness ==
  /\ output.closed
  /\ opt.ReduceShards >= 2
  /\ \A s \in Shards : BatchesOf(sent, s) # <<>>

\* C9: under fair scheduling, with every file yielding at least one entry,
\* run eventually closes s.output.
C9_EventuallyClosed == <>(output.closed)

\* C9 witness: the output queue is full, a per-file channel is full with its
\* decoder still holding entries, and run is blocked on the semaphore.
C9_Witness ==
  /\ Len(output.buf) = OutCap
  /\ opc = "acquire"
  /\ pending = opt.NumShufflers
  /\ \E s \in Shards : \E f \in DOMAIN rd[s] :
       /\ Len(chs[s][f].buf) = ChanCap
       /\ rd[s][f].st = "run"
       /\ ReadIter(files[s][f], rd[s][f].pos).kind = "send"

\* C11: once mergeMapShardsIntoReduceShards is done, a reduce shard holds no
\* map shard only if there are fewer map shards than reduce shards, whatever
\* the sizes (0 included) and whatever the order among equally small reduce
\* shards.
C11_EmptyOnlyIfFewer ==
  bpc = "done" =>
    ((\E r \in DOMAIN reduceShards : reduceShards[r] = <<>>) =>
       Len(sizes) < opt.ReduceShards)

\* C11, the part the code keeps: with map shards that all have a positive
\* size no reduce shard stays empty unless the map shards are too few.
C11_PositiveSizes ==
  (bpc = "done" /\ \A m \in DOMAIN sizes : sizes[m] > 0) =>
    ((\E r \in DOMAIN reduceShards : reduceShards[r] = <<>>) =>
       Len(sizes) < opt.ReduceShards)

\* C12: for each reduce shard ci.wait is called once: not before
\* shufflePostings has returned, so after the shard's last addUid call and
\* last batch; and before the shard gives back its semaphore slot and calls
\* wg.Done. Hence every shard's wait has returned when s.output is closed.
C12_WaitOnceInOrder ==
  /\ [](\A s \in Shards :
          /\ ci[s].waits <= 1
          /\ pc[s] \in {"release", "wgdone", "done"} => ci[s].waits = 1
          /\ pc[s] \in {"idle", "push", "loop", "batch", "returned"} => ci[s].waits = 0)
  /\ [][\A s \in Shards :
          /\ ci'[s].waits # ci[s].waits => pc[s] = "returned"
          /\ ci[s].waits = 1 =>
               /\ ci'[s].calls = ci[s].calls
               /\ BatchesOf(sent', s) = BatchesOf(sent, s)
          /\ (pc'[s] # pc[s] /\ pc'[s] \in {"wgdone", "done"}) => ci[s].waits = 1]_vars
  /\ [][(pending' < pending \/ wg' < wg) =>
          \E s \in Shards : pc'[s] # pc[s] /\ ci[s].waits = 1]_vars
  /\ [](output.closed => \A s \in Shards : ci[s].waits = 1)

\* C12 witness: s.output is closed after two shards have each reported a
\* key-group, sent a batch and then waited for their count indexer.
C12_Witness ==
  /\ output.closed
  /\ opt.ReduceShards >= 2
  /\ \A s \in Shards :
       ci[s].waits = 1 /\ ci[s].calls # <<>> /\ BatchesOf(sent, s) # <<>>

CountOf(es, e) == Cardinality({j \in DOMAIN es : es[j] = e})

\* Every record of es is taken from src, no more often than src holds it.
TakenFrom(es, src) == \A j \in DOMAIN es : CountOf(es, es[j]) <= CountOf(src, es[j])

Started(s) == pc[s] # "idle"

\* C13: every batch sent on s.output carries the store handle opened for
\* one started reduce shard and holds only records read from that shard's
\* files; the handles of two shards differ, each is the one run opened for
\* the shard, and the addUid calls recorded by a shard's count indexer are
\* about keys of that shard's files.
C13_HandleOwnsShard ==
  /\ \A n \in DOMAIN sent :
       \E s \in Shards :
         /\ Started(s)
         /\ sent[n].kv = ci[s].kv
         /\ TakenFrom(sent[n].entries, InputFrom(s, 1))
  /\ \A s \in Shards :
       Started(s) =>
         /\ TakenFrom(EntriesOf(sent, ci[s].kv), InputFrom(s, 1))
         /\ ci[s].kv = kvs[s + 1]
         /\ \A a \in DOMAIN ci[s].calls : ci[s].calls[a][1] \in KeysIn(InputFrom(s, 1))
         /\ \A t \in Shards : (Started(t) /\ t # s) => ci[t].kv # ci[s].kv

\* C13 witness: two shards with different keys merged side by side, and the
\* shard started second got its batch onto the queue first.
C13_Witness ==
  /\ Len(sent) = 2
  /\ sent[1].kv = ci[1].kv
  /\ sent[2].kv = ci[0].kv
  /\ KeysIn(sent[1].entries) \cap KeysIn(sent[2].entries) = {}
  /\ ci[0].calls # <<>>
  /\ ci[1].calls # <<>>

\* C14: every batch sent on s.output holds at least one record, whatever
\* the input: a shard without files, streams whose first key is the empty
\* key.
C14_NoEmptyBatch ==
  /\ \A n \in DOMAIN sent : sent[n].entries # <<>>
  /\ \A n \in DOMAIN output.buf : output.buf[n].entries # <<>>

\* C14 witness: a run whose first record has the empty key has returned
\* after sending two batches.
C14_Witness ==
  /\ pc[0] = "returned"
  /\ Len(sent) >= 2
  /\ sent[1].entries[1].Key = <<>>

\* The store handles opened by run and not yet closed: run appends every
\* handle to s.kvs (line 49) and closes none.
OpenHandles == Len(kvs)

\* C15: at any time at most NumShufflers store handles are open, also when
\* ReduceShards > NumShufflers.
C15_OpenHandlesCapped == OpenHandles <= opt.NumShufflers

\* C15, what the semaphore does cap: the handles of the shards that hold a
\* token; the open handles are those plus one per shard that is done.
C15_ActiveHandlesCapped ==
  /\ Cardinality({ci[s].kv : s \in ActiveShards}) <= opt.NumShufflers
  /\ OpenHandles = i
  /\ OpenHandles <= opt.ReduceShards

\* The map shards of seq, largest first.
Descending(seq) ==
  \A j \in DOMAIN seq : j + 1 \in DOMAIN seq => sizes[seq[j]] >= sizes[seq[j + 1]]

\* C16: mergeMapShardsIntoReduceShards is the greedy largest-first rule.
\* Map shards are taken in descending order of size: the list still to move
\* is descending and no moved shard is smaller than one still to move. Each
\* is moved into a reduce shard of minimal cumulative size, which then grows
\* by the moved shard's size: a reduce shard without its last map shard is no
\* larger than any reduce shard. Sizes 10, 9, 5, 5 and 2 reduce shards end
\* with the totals 15 and 14.
C16_GreedyLargestFirst ==
  bpc \in {"move", "done"} =>
    /\ Descending(mapShards)
    /\ \A r \in DOMAIN reduceShards :
         LET ms == reduceShards[r]
         IN /\ Descending(ms)
            /\ \A j \in DOMAIN ms : \A n \in DOMAIN mapShards :
                 sizes[ms[j]] >= sizes[mapShards[n]]
            /\ ms # <<>> =>
                 \A q \in DOMAIN reduceShards :
                   treeSize(r) - sizes[ms[Len(ms)]] <= treeSize(q)
    /\ (bpc = "done" /\ sizes \in ExampleSizes /\ opt.ReduceShards = 2) =>
         {treeSize(r) : r \in DOMAIN reduceShards} = {15, 14}

\* C16 witness: the sizes 5, 10, 5, 9 were balanced into two reduce shards,
\* 10 + 5 in one and 9 + 5 in the other.
C16_Witness ==
  /\ bpc = "done"
  /\ sizes = <<5, 10, 5, 9>>
  /\ opt.ReduceShards = 2
  /\ \E r \in DOMAIN reduceShards :
       /\ Len(reduceShards[r]) = 2
       /\ sizes[reduceShards[r][1]] = 10
       /\ treeSize(r) = 15

\* The records of batch b that precede its final key-group.
BeforeLastGroup(b) == {j \in DOMAIN b : b[j].Key # b[Len(b)].Key}

\* C17: a batch is closed at the first key boundary at which it holds at
\* least batchSize records. Every batch a shard has sent, except the one
\* sent after the merge loop, holds at least batchSize records; and in every
\* batch, sent or being filled, fewer than batchSize records precede the
\* final key-group.
C17_ClosedAtFirstBoundary ==
  \A s \in Shards :
    LET bs == BatchesOf(sent, s)
    IN /\ \A a \in DOMAIN bs :
            /\ (a < Len(bs) \/ ~Returned(s)) => Len(bs[a]) >= batchSize
            /\ Cardinality(BeforeLastGroup(bs[a])) < batchSize
       /\ (pc[s] \in {"loop", "batch"} /\ batch[s] # <<>>) =>
            Cardinality(BeforeLastGroup(batch[s])) < batchSize

\* C17 witness: a run has returned after a batch that holds a record before
\* its final key-group and exceeds batchSize by that group's tail, and a
\* last batch below batchSize.
C17_Witness ==
  LET bs == BatchesOf(sent, 0)
  IN /\ pc[0] = "returned"
     /\ Len(bs) = 2
     /\ Len(bs[1]) > batchSize
     /\ BeforeLastGroup(bs[1]) # {}
     /\ Len(bs[2]) < batchSize

\* The entries of the batches of outs that carry handle kv, in queue order.
RECURSIVE TaggedWith(_, _)
TaggedWith(outs, kv) ==
  IF outs = <<>> THEN <<>>
  ELSE (IF Head(outs).kv = kv THEN Head(outs).entries ELSE <<>>)
       \o TaggedWith(Tail(outs), kv)

\* C18: with several shards sending into s.output, the batches that carry
\* one shard's handle, concatenated in the order they were put on the queue
\* (and so in the order they lie in it), are non-decreasing by key, however
\* the batches of the other shards fall between them.
C18_PerShardOrderOnQueue ==
  \A s \in Shards :
    Started(s) =>
      /\ SortedByKey(TaggedWith(sent, ci[s].kv))
      /\ SortedByKey(TaggedWith(output.buf, ci[s].kv))

\* C18 witness: the batches of two shards alternate on the queue, each
\* shard's second batch starting with a larger key than its first.
C18_Witness ==
  /\ Len(sent) >= 4
  /\ sent[1].kv = ci[0].kv
  /\ sent[2].kv = ci[1].kv
  /\ sent[3].kv = ci[0].kv
  /\ sent[4].kv = ci[1].kv
  /\ Compare(sent[1].entries[1].Key, sent[3].entries[1].Key) < 0
  /\ Compare(sent[2].entries[1].Key, sent[4].entries[1].Key) < 0

\* es and src hold the same records, each as often.
SameRecords(es, src) == TakenFrom(es, src) /\ TakenFrom(src, es)

\* C19: the merge loses and duplicates no record and every heap node holds
\* an actual record, also when some streams are empty and others are not.
\* For a shard whose streams deliver at least one record: no heap node has a
\* nil entry, the run does not panic, no record is emitted more often than
\* delivered, and once the run is over, by return or by crash, the emitted
\* batches hold exactly the delivered records.
C19_NoRecordLost ==
  \A s \in Shards :
    InputFrom(s, 1) # <<>> =>
      /\ \A t \in DOMAIN ph[s] : ~NilAt(ph[s], t)
      /\ crashed # "panic"
      /\ TakenFrom(EntriesOf(sent, s), InputFrom(s, 1))
      /\ (Returned(s) \/ (crashed # "no" /\ Started(s))) =>
           SameRecords(EntriesOf(sent, s), InputFrom(s, 1))

\* C19, the part the code keeps: nothing is emitted twice, and a run that
\* returns has emitted every delivered record.
C19_OnReturn ==
  \A s \in Shards :
    /\ TakenFrom(EntriesOf(sent, s), InputFrom(s, 1))
    /\ Returned(s) => SameRecords(EntriesOf(sent, s), InputFrom(s, 1))

\* Shard s, the s-th of the loop of run, has got its token at line 39.
Acquired(s) == s < i \/ (s = i /\ opc = "start")

\* C20: run starts the reduce shards in non-increasing order of their
\* cumulative size after balancing: a shard gets its semaphore token only
\* after every shard before it in the loop, the shards before it are not
\* smaller, and the shard of iteration s reads the files of the s-th largest
\* directory and writes to the store of the s-th configured output
\* directory.
C20_LargestShardsFirst ==
  opc \in {"acquire", "start", "wait", "done"} =>
    /\ \A s, t \in Shards :
         (s < t /\ Acquired(t)) =>
           /\ Acquired(s)
           /\ treeSize(shardDirs[s + 1]) >= treeSize(shardDirs[t + 1])
    /\ \A s \in Shards :
         /\ Started(s) => Acquired(s)
         /\ Started(s) =>
              /\ files[s] = filenamesInTree(shardDirs[s + 1])
              /\ SumLen(files[s]) = treeSize(shardDirs[s + 1])
              /\ ci[s].kv = s
              /\ kvs[s + 1] = s

\* C20 witness: the second reduce shard directory ended larger than the
\* first, was started first with the first output directory, and both
\* shards are started.
C20_Witness ==
  /\ opt.ReduceShards = 2
  /\ Started(0)
  /\ Started(1)
  /\ shardDirs = <<1, 0>>
  /\ treeSize(1) > treeSize(0)
  /\ treeSize(0) > 0
  /\ ci[0].kv = 0

====
